---- MODULE Spec2Model ----
(***************************************************************************)
(* A model of maelzel.core's Chain / Note / Chord objects.                 *)
(*                                                                         *)
(* The Python heap is modelled explicitly: `heap` is the sequence of all   *)
(* objects ever allocated (an object's identity is its index), `lists` is  *)
(* the sequence of all Python list objects used as Chain.items (so that    *)
(* two chains holding the same list object are visible as such).  Time     *)
(* values (fractions in the source) are integers here.  `last` records the *)
(* most recent call: its name, receiver, argument, result, the exception   *)
(* it raised (if any) and the store it was applied to.                     *)
(***************************************************************************)
EXTENDS Integers, Sequences, FiniteSets, TLC

VARIABLES heap, lists, last, steps

vars == <<heap, lists, last, steps>>

(***************************************************************************)
(* Bounds                                                                  *)
(***************************************************************************)
MaxObj == 4
MaxSteps == 7
MaxDur == 2
MaxOffset == 1

(***************************************************************************)
(* Values                                                                  *)
(***************************************************************************)
\* Python's None for an optional time value
None == 0 - 1
\* Python's None for an object reference (object ids start at 1)
NoParent == 0
\* no exception was raised
NoErr == "ok"

Durs == 1..MaxDur
Offsets == {None} \cup (0..MaxOffset)

SeqSum(s) ==
  LET RECURSIVE go(_)
      go(i) == IF i > Len(s) THEN 0 ELSE s[i] + go(i + 1)
  IN go(1)

InSeq(x, s) == \E i \in 1..Len(s) : s[i] = x

\* the store: all objects and all item lists
Store == [h |-> heap, l |-> lists]

Ok(st, ret) == [st |-> st, ret |-> ret, retlist |-> <<>>, err |-> NoErr]
Raise(st, e) == [st |-> st, ret |-> None, retlist |-> <<>>, err |-> e]

(***************************************************************************)
(* Objects                                                                 *)
(***************************************************************************)
\* A Note or a Chord.  A chord's notes are modelled by their pitches, a
\* note has exactly one pitch.
MEvent(kind, pitches, dur, offset, tied, gliss, amp, dynamic, label) ==
  [kind |-> kind, offset |-> offset, dur |-> dur, resolved |-> None,
   parent |-> NoParent, items |-> 0, modified |-> FALSE, cached |-> FALSE,
   cache |-> <<>>, hasRedundant |-> FALSE, pitches |-> pitches,
   tied |-> tied, gliss |-> gliss, amp |-> amp, dynamic |-> dynamic,
   label |-> label, glissTarget |-> <<>>]

IsChain(o) == o.kind \in {"Chain", "Voice"}
IsEvent(o) == o.kind \in {"Note", "Chord"}

\* Note.isRest; a Chord is never a rest
isRest(o) == o.kind = "Note" /\ o.amp = 0 /\ o.pitches = <<0>>

ChainIds(h) == {i \in 1..Len(h) : IsChain(h[i])}
EventIds(h) == {i \in 1..Len(h) : IsEvent(h[i])}

ItemsOf(st, c) == st.l[st.h[c].items]

\* truth value of a Python object reference: a Chain defines __len__, so an
\* empty chain is falsy
Truthy(st, id) ==
  /\ id # NoParent
  /\ IsChain(st.h[id]) => Len(ItemsOf(st, id)) > 0

\* MObj.relOffset: the explicit offset if set, else the resolved offset cached
\* by the last stacking pass
relOffset(st, id) ==
  IF st.h[id].offset # None THEN st.h[id].offset
  ELSE IF st.h[id].resolved # None THEN st.h[id].resolved
  ELSE 0

\* MObj.absOffset: relative offset plus the offsets of all ancestors
RECURSIVE absOffset(_, _)
absOffset(st, id) ==
  IF st.h[id].kind = "Voice" \/ st.h[id].parent = NoParent THEN relOffset(st, id)
  ELSE relOffset(st, id) + absOffset(st, st.h[id].parent)

(***************************************************************************)
(* Stacking                                                                *)
(***************************************************************************)
\* _stackEvents(events, explicitOffsets), as a loop over events[i..] with the
\* running cursor `now`.  An exception leaves the writes made so far in place.
RECURSIVE _stackEvents(_, _, _, _, _)
_stackEvents(st, lid, i, now, explicitOffsets) ==
  IF i > Len(st.l[lid]) THEN Ok(st, now)
  ELSE
    LET ev == st.l[lid][i]
        o == st.h[ev]
        now1 == IF o.offset # None THEN o.offset ELSE now
        off1 == IF o.offset = None /\ explicitOffsets THEN now ELSE o.offset
        st1 == [st EXCEPT !.h[ev].offset = off1, !.h[ev].resolved = now1]
    IN IF IsEvent(o)
       THEN IF o.dur = None
            THEN Raise(st1, "ValueError")
            ELSE _stackEvents(st1, lid, i + 1, now1 + o.dur, explicitOffsets)
       ELSE LET sub == _stackEvents(st1, o.items, 1, 0, explicitOffsets)
            IN IF sub.err # NoErr THEN sub
               ELSE LET st2 == [sub.st EXCEPT !.h[ev].dur = sub.ret]
                    IN _stackEvents(st2, lid, i + 1,
                                    st2.h[ev].resolved + sub.ret, explicitOffsets)

(***************************************************************************)
(* Glissando targets                                                       *)
(***************************************************************************)
\* Chain.recurse: the leaf events of a chain, depth first
RECURSIVE recurse(_, _)
recurse(st, c) ==
  LET items == ItemsOf(st, c)
      RECURSIVE go(_)
      go(i) == IF i > Len(items) THEN <<>>
               ELSE (IF IsEvent(st.h[items[i]]) THEN <<items[i]>>
                     ELSE recurse(st, items[i])) \o go(i + 1)
  IN go(1)

\* max(n.pitch for n in notes), for a non-empty sequence
SeqMax(s) == CHOOSE x \in {s[i] : i \in 1..Len(s)} : \A i \in 1..Len(s) : s[i] <= x

LastN(s, n) == SubSeq(s, Len(s) - n + 1, Len(s))

\* the target computed for ev1 followed by ev2
GlissTargetFor(o1, o2) ==
  IF o1.kind = "Note"
  THEN IF o2.kind = "Note" THEN <<o2.pitches[1]>>
       ELSE <<SeqMax(o2.pitches)>>
  ELSE IF o2.kind = "Chord"
       THEN IF Len(o2.pitches) > Len(o1.pitches)
            THEN LastN(o2.pitches, Len(o1.pitches))
            ELSE o2.pitches
       ELSE [k \in 1..Len(o1.pitches) |-> o2.pitches[1]]

\* _resolveGlissandi(flatevents, force): pairwise scan, then the last event
_resolveGlissandi(st, flat, force) ==
  LET RECURSIVE go(_, _)
      go(h, i) ==
        IF i >= Len(flat) THEN h
        ELSE LET e1 == flat[i]
                 e2 == flat[i + 1]
             IN IF isRest(h[e1]) \/ isRest(h[e2]) THEN go(h, i + 1)
                ELSE IF h[e1].gliss
                     THEN IF ~force /\ h[e1].glissTarget # <<>>
                          THEN go(h, i + 1)
                          ELSE go([h EXCEPT ![e1].glissTarget =
                                      GlissTargetFor(h[e1], h[e2])], i + 1)
                     ELSE go(h, i + 1)
      h1 == go(st.h, 1)
      n == Len(flat)
      \* ev2 is only bound when the sequence has at least one pair
      h2 == IF n >= 2 /\ h1[flat[n]].gliss
            THEN [h1 EXCEPT ![flat[n]].glissTarget = h1[flat[n]].pitches]
            ELSE h1
  IN [st EXCEPT !.h = h2]

(***************************************************************************)
(* Cache invalidation                                                      *)
(***************************************************************************)
\* Chain._changed and Chain._childChanged
RECURSIVE _changed(_, _)
_changed(st, c) ==
  IF st.h[c].modified THEN st
  ELSE LET st1 == [st EXCEPT !.h[c].modified = TRUE,
                             !.h[c].dur = None,
                             !.h[c].cached = FALSE,
                             !.h[c].cache = <<>>]
           p == st.h[c].parent
       IN IF Truthy(st1, p)
          THEN (IF ~st1.h[p].modified THEN _changed(st1, p) ELSE st1)
          ELSE st1

\* Chain._update with a slip: the lazy pass asks for explicit offsets
_updateExplicit(st, c) ==
  IF ~st.h[c].modified /\ st.h[c].dur = None THEN Raise(st, "TypeError")
  ELSE IF ~st.h[c].modified /\ st.h[c].dur > 0 THEN Ok(st, None)
  ELSE LET r == _stackEvents(st, st.h[c].items, 1, 0, TRUE)
       IN IF r.err # NoErr THEN r
          ELSE LET st1 == [r.st EXCEPT !.h[c].dur = r.ret]
                   st2 == _resolveGlissandi(st1, recurse(st1, c), FALSE)
               IN Ok([st2 EXCEPT !.h[c].modified = FALSE,
                                 !.h[c].hasRedundant = TRUE], None)

\* Chain._update
_update(st, c) ==
  IF ~st.h[c].modified /\ st.h[c].dur = None THEN Raise(st, "TypeError")
  ELSE IF ~st.h[c].modified /\ st.h[c].dur > 0 THEN Ok(st, None)
  ELSE LET r == _stackEvents(st, st.h[c].items, 1, 0, FALSE)
       IN IF r.err # NoErr THEN r
          ELSE LET st1 == [r.st EXCEPT !.h[c].dur = r.ret]
                   st2 == _resolveGlissandi(st1, recurse(st1, c), FALSE)
               IN Ok([st2 EXCEPT !.h[c].modified = FALSE,
                                 !.h[c].hasRedundant = TRUE], None)

(***************************************************************************)
(* Construction                                                            *)
(***************************************************************************)
\* Chain.__init__(items, offset) where items is the list object lid.  An item
\* that already has a parent is copied, but the copy is only bound to the
\* loop variable: the list keeps the original item and only the (unreachable)
\* copy gets parent = self.
ChainInit(st, lid, offset, kind) ==
  LET self == Len(st.h) + 1
      items == st.l[lid]
      h1 == [i \in 1..Len(st.h) |->
               IF InSeq(i, items) /\ st.h[i].parent = NoParent
               THEN [st.h[i] EXCEPT !.parent = self]
               ELSE st.h[i]]
      obj == [MEvent(kind, <<>>, 0, offset, FALSE, FALSE, 0, 0, 0)
                EXCEPT !.items = lid,
                       !.modified = Len(items) > 0,
                       !.hasRedundant = TRUE]
  IN [st EXCEPT !.h = Append(h1, obj)]

(***************************************************************************)
(* Chain operations                                                        *)
(***************************************************************************)
\* Chain.stack
stack(st, c) ==
  LET r == _stackEvents(st, st.h[c].items, 1, 0, TRUE)
  IN IF r.err # NoErr THEN r
     ELSE Ok(_changed([r.st EXCEPT !.h[c].dur = r.ret], c), r.ret)

\* the Chain.dur property
dur(st, c) ==
  IF ~st.h[c].modified THEN Ok(st, st.h[c].dur)
  ELSE IF Len(ItemsOf(st, c)) = 0
       THEN Ok([st EXCEPT !.h[c].dur = 0], 0)
       ELSE LET r == _update(st, c)
            IN IF r.err # NoErr THEN r ELSE Ok(r.st, r.st.h[c].dur)

\* Chain._eventsWithOffset(frame): the flat (event, offset) pairs and the
\* total duration
RECURSIVE _eventsWithOffset(_, _, _)
_eventsWithOffset(st, c, frame) ==
  LET items == ItemsOf(st, c)
      RECURSIVE go(_, _, _)
      go(i, now, events) ==
        IF i > Len(items) THEN [events |-> events, dur |-> now - frame]
        ELSE LET item == items[i]
                 o == st.h[item]
                 \* `if item.offset:` is false for None and for 0
                 now1 == IF o.offset # None /\ o.offset # 0
                         THEN frame + o.offset ELSE now
             IN IF IsEvent(o)
                THEN go(i + 1, now1 + o.dur, Append(events, <<item, now1>>))
                ELSE LET sub == _eventsWithOffset(st, item, now1)
                     IN go(i + 1, now1 + sub.dur, events \o sub.events)
  IN go(1, frame, <<>>)

\* Chain.eventsWithOffset()
eventsWithOffset(st, c) ==
  LET r == _update(st, c)
  IN IF r.err # NoErr THEN r
     ELSE IF r.st.h[c].cached /\ Len(r.st.h[c].cache) > 0
          THEN [Ok(r.st, None) EXCEPT !.retlist = r.st.h[c].cache]
          ELSE LET f == _eventsWithOffset(r.st, c, absOffset(r.st, c))
                   st1 == [r.st EXCEPT !.h[c].dur = f.dur,
                                       !.h[c].cached = TRUE,
                                       !.h[c].cache = f.events]
               IN [Ok(st1, None) EXCEPT !.retlist = f.events]

\* Chain.append(item)
append(st, c, item) ==
  LET st1 == [st EXCEPT !.h[item].parent = c,
                        !.l[st.h[c].items] = Append(@, item)]
  IN Ok(_changed(st1, c), None)

\* item.dur as read by a caller: a chain computes it on demand
itemDur(st, id) == IF IsChain(st.h[id]) THEN dur(st, id) ELSE Ok(st, st.h[id].dur)

\* Chain.itemsWithRelativeOffset, fully iterated: the items with their offset
\* relative to the chain
itemsWithRelativeOffset(st, c) ==
  LET RECURSIVE go(_, _, _, _, _)
      \* yield item, now; now += item.dur (d is the result of reading item.dur)
      yield(d, items, i, now1, out) ==
        IF d.err # NoErr THEN d
        ELSE IF d.ret = None THEN Raise(d.st, "TypeError")
        ELSE go(d.st, items, i + 1, now1 + d.ret, Append(out, <<items[i], now1>>))
      at(s, items, i, now, out, itemoffset) ==
        yield(itemDur(s, items[i]), items, i,
              IF itemoffset > now THEN itemoffset ELSE now, out)
      go(s, items, i, now, out) ==
        IF i > Len(items) THEN [Ok(s, None) EXCEPT !.retlist = out]
        ELSE at(s, items, i, now, out, relOffset(s, items[i]))
      start(u) == IF u.err # NoErr THEN u ELSE go(u.st, ItemsOf(u.st, c), 1, 0, <<>>)
  IN start(_update(st, c))

\* Chain.itemsWithOffset, fully iterated
itemsWithOffset(st, c) ==
  LET shift(r, frame) ==
        IF r.err # NoErr THEN r
        ELSE [r EXCEPT !.retlist = [k \in 1..Len(r.retlist) |->
                                      <<r.retlist[k][1], r.retlist[k][2] + frame>>]]
      start(u) == IF u.err # NoErr THEN u
                  ELSE shift(itemsWithRelativeOffset(u.st, c), absOffset(u.st, c))
  IN start(_update(st, c))

\* Chain.childOffset(child)
childOffset(st, c, child) ==
  IF ~InSeq(child, ItemsOf(st, c)) THEN Raise(st, "ValueError")
  ELSE IF st.h[child].offset # None THEN Ok(st, st.h[child].offset)
  ELSE LET u == _update(st, c)
       IN IF u.err # NoErr THEN u ELSE Ok(u.st, u.st.h[child].resolved)

\* Note.makeRest(dur)
makeRest(d) == MEvent("Note", <<0>>, d, None, FALSE, FALSE, 0, 0, 0)

\* Chain.fillGaps(recurse=True).  The rests are new objects and the chain gets
\* a new items list; an exception leaves self.items as it was.
RECURSIVE fillGaps(_, _)
fillGaps(st, c) ==
  LET GRes(s, out, changed, e) == [st |-> s, out |-> out, changed |-> changed, err |-> e]
      RECURSIVE go(_, _, _, _, _, _)
      \* now += item.dur (d is the result of reading item.dur)
      addDur(d, items, i, now1, out1, changed1) ==
        IF d.err # NoErr THEN GRes(d.st, out1, changed1, d.err)
        ELSE IF d.ret = None THEN GRes(d.st, out1, changed1, "TypeError")
        ELSE go(d.st, items, i + 1, now1 + d.ret, out1, changed1)
      \* f is the result of item.fillGaps(recurse=True) on a sub-chain
      afterSub(f, items, i, now1, out1, changed1) ==
        IF f.err # NoErr THEN GRes(f.st, out1, changed1, f.err)
        ELSE addDur(dur(f.st, items[i]), items, i, now1, out1, changed1)
      \* s1 is the store with the rest, when one was made
      place(s1, items, i, gap, gapdur, now, out, changed) ==
        LET item == items[i]
            out1 == IF gap THEN out \o <<Len(s1.h), item>> ELSE Append(out, item)
            now1 == IF gap THEN now + gapdur ELSE now
        IN IF IsChain(s1.h[item])
           THEN afterSub(fillGaps(s1, item), items, i, now1, out1, changed \/ gap)
           ELSE addDur(Ok(s1, s1.h[item].dur), items, i, now1, out1, changed \/ gap)
      go(s, items, i, now, out, changed) ==
        IF i > Len(items) THEN GRes(s, out, changed, NoErr)
        ELSE LET o == s.h[items[i]]
                 gap == o.offset # None /\ o.offset > now
                 gapdur == o.offset - now
             IN place(IF gap THEN [s EXCEPT !.h = Append(@, makeRest(gapdur))] ELSE s,
                      items, i, gap, gapdur, now, out, changed)
      \* self.items = items; the chain is marked when a rest was inserted
      finish(r) ==
        IF r.err # NoErr THEN Raise(r.st, r.err)
        ELSE LET s2 == [r.st EXCEPT !.l = Append(@, r.out),
                                    !.h[c].items = Len(r.st.l) + 1]
             IN Ok(IF r.changed THEN _changed(s2, c) ELSE s2, None)
      start(u) == IF u.err # NoErr THEN u
                  ELSE finish(go(u.st, ItemsOf(u.st, c), 1, 0, <<>>, FALSE))
  IN start(_update(st, c))

\* MObj._detachedOffset: the explicit offset, else the resolved offset, else
\* None; the parent is not consulted
_detachedOffset(o) == IF o.offset # None THEN o.offset ELSE o.resolved

\* _removeRedundantOffsets with a slip: an item whose offset was cleared is
\* skipped, so its duration does not advance the cursor
RECURSIVE _removeRedundantOffsetsSkip(_, _, _)
_removeRedundantOffsetsSkip(st, lid, frame) ==
  LET items == st.l[lid]
      Res(s, now, modified, e) == [st |-> s, ret |-> now - frame, mod |-> modified, err |-> e]
      RECURSIVE go(_, _, _, _)
      \* sub is the result of the pass over the sub-chain items[i]
      afterSub(sub, i, now, modified) ==
        IF sub.err # NoErr THEN Res(sub.st, now, modified, sub.err)
        ELSE go(IF sub.mod THEN _changed(sub.st, items[i]) ELSE sub.st,
                i + 1, now + sub.ret, modified \/ sub.mod)
      \* the part of the loop body after the offset test
      advance(s, i, now, modified) ==
        LET item == items[i]
        IN IF IsEvent(s.h[item])
           THEN IF s.h[item].dur = None THEN Res(s, now, modified, "TypeError")
                ELSE go(s, i + 1, now + s.h[item].dur, modified)
           ELSE afterSub(_removeRedundantOffsetsSkip(s, s.h[item].items, now), i, now, modified)
      \* the offset test; pd is the result of reading items[i-1].dur, which is
      \* only read when the offsets coincide
      test(pd, i, now, modified, itemoffset) ==
        LET item == items[i]
            absoffset == itemoffset + frame
        IN IF pd.err # NoErr THEN Res(pd.st, now, modified, pd.err)
           ELSE IF absoffset = now /\ pd.ret # None
           THEN IF pd.st.h[item].offset # None
                THEN go([pd.st EXCEPT !.h[item].offset = None], i + 1, now, TRUE)
                ELSE advance(pd.st, i, now, modified)
           ELSE IF absoffset < now THEN Res(pd.st, now, modified, "ValueError")
           ELSE advance(pd.st, i, absoffset, modified)
      go(s, i, now, modified) ==
        IF i > Len(items) THEN Res(s, now, modified, NoErr)
        ELSE LET itemoffset == _detachedOffset(s.h[items[i]])
             IN IF itemoffset = None THEN advance(s, i, now, modified)
                ELSE test(IF itemoffset + frame = now /\ i > 1
                          THEN itemDur(s, items[i - 1]) ELSE Ok(s, 0),
                          i, now, modified, itemoffset)
  IN go(st, 1, frame, FALSE)

\* _removeRedundantOffsets(items, frame) over the list lid; ret is the total
\* duration and mod tells whether an offset was cleared
RECURSIVE _removeRedundantOffsets(_, _, _)
_removeRedundantOffsets(st, lid, frame) ==
  LET items == st.l[lid]
      Res(s, now, modified, e) == [st |-> s, ret |-> now - frame, mod |-> modified, err |-> e]
      RECURSIVE go(_, _, _, _)
      \* sub is the result of the pass over the sub-chain items[i]
      afterSub(sub, i, now, modified) ==
        IF sub.err # NoErr THEN Res(sub.st, now, modified, sub.err)
        ELSE go(IF sub.mod THEN _changed(sub.st, items[i]) ELSE sub.st,
                i + 1, now + sub.ret, modified \/ sub.mod)
      \* the part of the loop body after the offset test
      advance(s, i, now, modified) ==
        LET item == items[i]
        IN IF IsEvent(s.h[item])
           THEN IF s.h[item].dur = None THEN Res(s, now, modified, "TypeError")
                ELSE go(s, i + 1, now + s.h[item].dur, modified)
           ELSE afterSub(_removeRedundantOffsets(s, s.h[item].items, now), i, now, modified)
      \* the offset test; pd is the result of reading items[i-1].dur, which is
      \* only read when the offsets coincide
      test(pd, i, now, modified, itemoffset) ==
        LET item == items[i]
            absoffset == itemoffset + frame
        IN IF pd.err # NoErr THEN Res(pd.st, now, modified, pd.err)
           ELSE IF absoffset = now /\ pd.ret # None
           THEN IF pd.st.h[item].offset # None
                THEN advance([pd.st EXCEPT !.h[item].offset = None], i, now, TRUE)
                ELSE advance(pd.st, i, now, modified)
           ELSE IF absoffset < now THEN Res(pd.st, now, modified, "ValueError")
           ELSE advance(pd.st, i, absoffset, modified)
      go(s, i, now, modified) ==
        IF i > Len(items) THEN Res(s, now, modified, NoErr)
        ELSE LET itemoffset == _detachedOffset(s.h[items[i]])
             IN IF itemoffset = None THEN advance(s, i, now, modified)
                ELSE test(IF itemoffset + frame = now /\ i > 1
                          THEN itemDur(s, items[i - 1]) ELSE Ok(s, 0),
                          i, now, modified, itemoffset)
  IN go(st, 1, frame, FALSE)

\* Chain.removeRedundantOffsets
removeRedundantOffsets(st, c) ==
  LET \* r is the result of _removeRedundantOffsets(self.items, frame=F0)
      finish(r) ==
        LET zero == r.st.h[c].offset = 0
            s1 == IF zero THEN [r.st EXCEPT !.h[c].offset = None] ELSE r.st
            s2 == IF r.mod \/ zero
                  THEN [_changed(s1, c) EXCEPT !.h[c].hasRedundant = FALSE]
                  ELSE s1
        IN IF r.err # NoErr THEN Raise(r.st, r.err) ELSE Ok(s2, None)
      start(u) == IF u.err # NoErr THEN u
                  ELSE finish(_removeRedundantOffsets(u.st, u.st.h[c].items, 0))
  IN IF ~st.h[c].hasRedundant /\ ~st.h[c].modified THEN Ok(st, None)
     ELSE start(_update(st, c))

(***************************************************************************)
(* Time shifting and voices                                                *)
(***************************************************************************)
\* MObj.resolveEnd: the relative offset plus the duration
resolveEnd(st, id) == relOffset(st, id) + st.h[id].dur

\* MEvent.timeShiftInPlace(delta): the offset becomes the relative offset plus
\* delta and the container is told that a child changed
eventTimeShiftInPlace(st, e, delta) ==
  LET st1 == [st EXCEPT !.h[e].offset = relOffset(st, e) + delta]
      p == st.h[e].parent
  IN IF Truthy(st1, p) THEN _changed(st1, p) ELSE st1

\* a == b as list.index compares items: the same object, or two Notes with
\* the same hash (Note.__eq__, Note.__hash__)
ItemEq(st, a, b) ==
  \/ a = b
  \/ /\ st.h[a].kind = "Note" /\ st.h[b].kind = "Note"
     /\ \A f \in {"pitches", "dur", "offset", "gliss", "label", "dynamic", "tied"} :
          st.h[a][f] = st.h[b][f]

\* items.index(item), counted from 1; 0 when list.index raises ValueError
index(st, items, item) ==
  LET found == {i \in 1..Len(items) : ItemEq(st, items[i], item)}
  IN IF found = {} THEN 0 ELSE CHOOSE i \in found : \A j \in found : i <= j

\* Chain.previousItem(item): 0 for None; ValueError if item is not in the list
previousItem(st, c, item) ==
  LET items == ItemsOf(st, c)
      idx == index(st, items, item)
  IN IF idx = 0 THEN Raise(st, "ValueError")
     ELSE Ok(st, IF idx = 1 THEN 0 ELSE items[idx - 1])

\* Chain.nextItem(item): 0 for None; list.index raises ValueError if item is
\* not in the list
nextItem(st, c, item) ==
  LET items == ItemsOf(st, c)
      idx == index(st, items, item)
  IN IF idx = 0 THEN Raise(st, "ValueError")
     ELSE Ok(st, IF idx - 1 < Len(items) - 2 THEN items[idx + 1] ELSE 0)

\* Chain.firstOffset: None for a chain without events
firstOffset(st, c) ==
  LET evs == recurse(st, c)
  IN IF Len(evs) = 0 THEN None ELSE absOffset(st, evs[1]) - absOffset(st, c)

\* Chain.timeShiftInPlace(timeoffset)
RECURSIVE timeShiftInPlace(_, _, _)
timeShiftInPlace(st, c, timeoffset) ==
  LET RECURSIVE go(_, _, _, _)
      afterItem(r, items, i, itemshift) ==
        IF r.err # NoErr THEN r ELSE go(r.st, items, i + 1, itemshift)
      \* for item in self.items: item.timeShiftInPlace(itemshift)
      go(s, items, i, itemshift) ==
        IF i > Len(items) THEN Ok(s, None)
        ELSE IF IsChain(s.h[items[i]])
             THEN afterItem(timeShiftInPlace(s, items[i], itemshift), items, i, itemshift)
             ELSE go(eventTimeShiftInPlace(s, items[i], itemshift), items, i + 1, itemshift)
      \* the test against the end of the previous item of the parent
      fit(prev, s, moved, newreloffset) ==
        IF prev.err # NoErr THEN prev
        ELSE IF prev.ret = 0 THEN Ok(moved, None)
        ELSE IF newreloffset < resolveEnd(s, prev.ret) THEN Raise(s, "ValueError")
        ELSE Ok(moved, None)
      \* g is the result of shifting the items
      rest(g, reloffset, restshift) ==
        LET newreloffset == reloffset + restshift
            moved == _changed([g.st EXCEPT !.h[c].offset = newreloffset], c)
        IN IF g.err # NoErr THEN g
           ELSE IF restshift = 0 THEN Ok(_changed(g.st, c), None)
           ELSE IF newreloffset < 0 THEN Raise(g.st, "ValueError")
           ELSE IF ~Truthy(g.st, g.st.h[c].parent) THEN Ok(moved, None)
           ELSE fit(previousItem(g.st, g.st.h[c].parent, c), g.st, moved, newreloffset)
      negative(s, reloffset, firstoffset) ==
        LET shifted == firstoffset + timeoffset
            newfirstoffset == IF shifted > 0 THEN shifted ELSE 0
        IN IF firstoffset = None THEN Raise(s, "AssertionError")
           ELSE rest(go(s, ItemsOf(s, c), 1, newfirstoffset - firstoffset),
                     reloffset, timeoffset + firstoffset - newfirstoffset)
      start(u) ==
        IF u.err # NoErr THEN u
        ELSE IF timeoffset > 0
        THEN Ok(_changed([u.st EXCEPT !.h[c].offset = relOffset(u.st, c) + timeoffset], c),
                None)
        ELSE negative(u.st, relOffset(u.st, c), firstOffset(u.st, c))
  IN IF timeoffset = 0 THEN Ok(st, None) ELSE start(_update(st, c))

\* Chain.clone(offset=o): a new chain over the same list object; parent is not
\* cloned
cloneChain(st, c, o) == ChainInit(st, st.h[c].items, o, st.h[c].kind)

\* Chain.timeShift(timeoffset) for timeoffset > 0: ret is the shifted clone
timeShift(st, c, timeoffset) ==
  Ok(cloneChain(st, c, relOffset(st, c) + timeoffset), Len(st.h) + 1)

\* Voice.__init__(items): the constructor copies the item list, so the voice
\* has a list object of its own
VoiceInit(st, items) ==
  LET st1 == [st EXCEPT !.l = Append(@, items)]
  IN ChainInit(st1, Len(st1.l), 0, "Voice")

\* Voice.__init__(chain): the items are those of the chain, or of its shifted
\* clone when the chain has a positive offset
VoiceFromChain(st, c) ==
  LET off == st.h[c].offset
      t == IF off # None /\ off > 0 THEN timeShift(st, c, off) ELSE Ok(st, c)
  IN VoiceInit(t.st, ItemsOf(t.st, t.ret))

(***************************************************************************)
(* Merging tied events                                                     *)
(***************************************************************************)
\* Note.clone, and Chord.copy followed by the attribute overrides of
\* MObj.clone: a new object with the attributes of o; it has no parent, no
\* resolved offset and no cached gliss target
clone(o) == [o EXCEPT !.parent = NoParent, !.resolved = None, !.glissTarget = <<>>]

NotMerged == [ok |-> FALSE, obj |-> clone(MEvent("Note", <<0>>, 0, None, FALSE, FALSE, 0, 0, 0))]
Merged(o) == [ok |-> TRUE, obj |-> o]

\* Note.mergeWith(other)
NoteMergeWith(self, other) ==
  IF isRest(self) /\ isRest(other)
  THEN Merged([clone(self) EXCEPT !.dur = self.dur + other.dur])
  ELSE IF \/ ~self.tied
          \/ self.gliss
          \/ isRest(other)
          \/ isRest(self)
          \/ self.pitches # other.pitches
          \/ self.amp # other.amp
          \/ self.dynamic # other.dynamic
       THEN NotMerged
       ELSE Merged([clone(self) EXCEPT !.dur = self.dur + other.dur,
                                       !.tied = other.tied])

\* Chord.mergeWith(other)
ChordMergeWith(self, other) ==
  IF other.kind # "Chord" THEN NotMerged
  ELSE IF ~self.tied \/ other.gliss \/ self.pitches # other.pitches
       THEN NotMerged
       ELSE Merged([clone(self) EXCEPT !.dur = self.dur + other.dur])

mergeWith(self, other) ==
  IF self.kind = "Note" THEN NoteMergeWith(self, other)
  ELSE ChordMergeWith(self, other)

\* Chain.mergeTiedEvents.  `lst` is the pending event (0 for None); a merged
\* event is a new object.
RECURSIVE mergeTiedEvents(_, _)
mergeTiedEvents(st, c) ==
  LET items == ItemsOf(st, c)
      lastidx == Len(items)
      RECURSIVE go(_, _, _, _, _)
      go(s, i, out, lst, modified) ==
        IF i > Len(items) THEN [st |-> s, out |-> out, modified |-> modified]
        ELSE
          LET item == items[i]
          IN IF IsChain(s.h[item])
             THEN go(mergeTiedEvents(s, item), i + 1, Append(out, item), 0, modified)
             ELSE IF lst # 0 /\ s.h[lst].kind = s.h[item].kind
             THEN LET m == mergeWith(s.h[lst], s.h[item])
                  IN IF ~m.ok
                     THEN go(s, i + 1, Append(out, lst), item, modified)
                     ELSE LET s1 == [s EXCEPT !.h = Append(@, m.obj)]
                              mid == Len(s1.h)
                          IN IF i < lastidx
                             THEN go(s1, i + 1, out, mid, TRUE)
                             ELSE go(s1, i + 1, Append(out, mid), lst, TRUE)
             ELSE LET out1 == IF lst # 0 THEN Append(out, lst) ELSE out
                      out2 == IF i = lastidx THEN Append(out1, item) ELSE out1
                  IN go(s, i + 1, out2, item, modified)
      r == go(st, 1, <<>>, 0, FALSE)
      s2 == [r.st EXCEPT !.l = Append(@, r.out),
                         !.h[c].items = Len(r.st.l) + 1]
  IN IF r.modified THEN _changed(s2, c) ELSE s2

(***************************************************************************)
(* Actions                                                                 *)
(***************************************************************************)
Call(op, target, arg, r) ==
  /\ heap' = r.st.h
  /\ lists' = r.st.l
  /\ last' = [op |-> op, target |-> target, arg |-> arg, ret |-> r.ret,
              retlist |-> r.retlist, err |-> r.err, pre |-> Store]
  /\ steps' = steps + 1

CanStep == steps < MaxSteps
CanAlloc == CanStep /\ Len(heap) < MaxObj

\* the ids of S in increasing order
SeqOfSet(S) ==
  LET RECURSIVE go(_)
      go(T) == IF T = {} THEN <<>>
               ELSE LET m == CHOOSE x \in T : \A y \in T : x <= y
                    IN <<m>> \o go(T \ {m})
  IN go(S)

\* Note(pitch, dur=d, offset=o)
NewNote(d, o) ==
  /\ CanAlloc
  /\ Call("Note", Len(heap) + 1, 0,
          Ok([Store EXCEPT !.h = Append(@, MEvent("Note", <<60>>, d, o, FALSE,
                                                  FALSE, 1, 0, 0))], None))

\* Chain(items, offset=o): items is a new list of existing objects (events or
\* chains, with or without a parent), here in the order of their creation
NewChain(S, o) ==
  /\ CanAlloc
  /\ LET st1 == [Store EXCEPT !.l = Append(@, SeqOfSet(S))]
     IN Call("Chain", Len(heap) + 1, 0, Ok(ChainInit(st1, Len(st1.l), o, "Chain"), None))

\* c.append(e) for an event e that is in no container yet
DoAppend(c, e) ==
  /\ CanStep
  /\ heap[e].parent = NoParent
  /\ Call("append", c, e, append(Store, c, e))

DoStack(c) == CanStep /\ Call("stack", c, 0, stack(Store, c))

ReadDur(c) == CanStep /\ Call("dur", c, 0, dur(Store, c))

ReadEvents(c) == CanStep /\ Call("eventsWithOffset", c, 0, eventsWithOffset(Store, c))

Init ==
  /\ heap = <<>>
  /\ lists = <<>>
  /\ last = [op |-> "init", target |-> 0, arg |-> 0, ret |-> None,
             retlist |-> <<>>, err |-> NoErr, pre |-> [h |-> <<>>, l |-> <<>>]]
  /\ steps = 0

Next ==
  \/ \E d \in Durs, o \in Offsets : NewNote(d, o)
  \/ \E S \in SUBSET (1..Len(heap)), o \in {None} : NewChain(S, o)
  \/ \E c \in ChainIds(heap), e \in EventIds(heap) : DoAppend(c, e)
  \/ \E c \in ChainIds(heap) : DoStack(c)
  \/ \E c \in ChainIds(heap) : ReadDur(c)
  \/ \E c \in ChainIds(heap) : ReadEvents(c)

Spec == Init /\ [][Next]_vars

(***************************************************************************)
(* Merging: the events carry a type, a pitch and a tie flag                *)
(***************************************************************************)
MergePitches == {<<60>>, <<62>>}

\* Note(p, dur=d, tied=t) or Chord(p, dur=d, tied=t)
NewTiedEvent(k, p, d, t) ==
  /\ CanAlloc
  /\ Call(k, Len(heap) + 1, 0,
          Ok([Store EXCEPT !.h = Append(@, MEvent(k, p, d, None, t, FALSE, 1, 0, 0))],
             None))

DoMergeTiedEvents(c) ==
  CanStep /\ Call("mergeTiedEvents", c, 0, Ok(mergeTiedEvents(Store, c), None))

NextMerge ==
  \/ \E k \in {"Note", "Chord"}, p \in MergePitches, d \in Durs, t \in BOOLEAN :
       NewTiedEvent(k, p, d, t)
  \/ \E S \in SUBSET (1..Len(heap)) : NewChain(S, None)
  \/ \E c \in ChainIds(heap) : DoMergeTiedEvents(c)

SpecMerge == Init /\ [][NextMerge]_vars

(***************************************************************************)
(* mergeWith as a function of two events                                   *)
(***************************************************************************)
Flags == {0, 1}

\* all notes and chords over these attributes; a rest (Note.makeRest) is a
\* note of pitch 0 and amplitude 0 without tie or glissando
EventSpace ==
  {e \in {MEvent(k, <<p>>, d, None, t, g, a, dy, lb) :
            k \in {"Note", "Chord"}, p \in {0, 60, 62}, d \in Durs, t \in BOOLEAN,
            g \in BOOLEAN, a \in Flags, dy \in Flags, lb \in Flags} :
     /\ isRest(e) => ~e.tied /\ ~e.gliss
     /\ e.kind = "Chord" => e.pitches # <<0>>}

InitMergeWith ==
  /\ \E e1, e2 \in EventSpace : heap = <<e1, e2>>
  /\ lists = <<>>
  /\ last = [op |-> "init", target |-> 0, arg |-> 0, ret |-> None,
             retlist |-> <<>>, err |-> NoErr, pre |-> [h |-> <<>>, l |-> <<>>]]
  /\ steps = 0

\* a.mergeWith(b): the merged event is a new object, returned by its id
DoMergeWith(a, b) ==
  /\ steps = 0
  /\ LET m == mergeWith(heap[a], heap[b])
     IN Call("mergeWith", a, b,
             IF m.ok THEN Ok([Store EXCEPT !.h = Append(@, m.obj)], Len(heap) + 1)
             ELSE Ok(Store, None))

NextMergeWith == \E a, b \in {1, 2} : a # b /\ DoMergeWith(a, b)

SpecMergeWith == InitMergeWith /\ [][NextMergeWith]_vars

(***************************************************************************)
(* Gap filling: notes and chains with explicit offsets                     *)
(***************************************************************************)
GapOffsets == {None} \cup (0..(MaxOffset + 1))

DoFillGaps(c) == CanStep /\ Call("fillGaps", c, 0, fillGaps(Store, c))

NextGaps ==
  \/ \E d \in Durs, o \in GapOffsets : NewNote(d, o)
  \/ \E S \in SUBSET (1..Len(heap)), o \in {None, MaxOffset} : NewChain(S, o)
  \/ \E c \in ChainIds(heap) : DoFillGaps(c)

SpecGaps == Init /\ [][NextGaps]_vars

(***************************************************************************)
(* Explicit offsets: stacking and removing redundant offsets               *)
(***************************************************************************)
DoRemoveRedundantOffsets(c) ==
  CanStep /\ Call("removeRedundantOffsets", c, 0, removeRedundantOffsets(Store, c))

\* small trees: one object and one call less than the other specifications
SmallStep == steps < MaxSteps - 1
SmallAlloc == SmallStep /\ Len(heap) < MaxObj - 1

NextOffsets ==
  \/ SmallAlloc /\ \E d \in {1, MaxDur}, o \in Offsets : NewNote(d, o)
  \/ SmallAlloc /\ \E S \in SUBSET (1..Len(heap)), o \in {None, 0} : NewChain(S, o)
  \/ SmallStep /\ \E c \in ChainIds(heap) : DoStack(c)
  \/ SmallStep /\ \E c \in ChainIds(heap) : DoRemoveRedundantOffsets(c)
  \/ SmallStep /\ \E c \in ChainIds(heap) : ReadDur(c)

SpecOffsets == Init /\ [][NextOffsets]_vars

(***************************************************************************)
(* Voices and time shifts                                                  *)
(***************************************************************************)
Shifts == ((0 - MaxOffset - 1)..MaxOffset) \ {0}

\* Voice(items) for a list of existing objects
NewVoice(S) ==
  /\ CanAlloc
  /\ Call("Voice", Len(heap) + 1, 0, Ok(VoiceInit(Store, SeqOfSet(S)), None))

\* Voice(c) for a Chain c; the new voice is the last object
NewVoiceFromChain(c) ==
  /\ CanAlloc
  /\ heap[c].kind = "Chain"
  /\ LET st1 == VoiceFromChain(Store, c)
     IN Call("VoiceFromChain", Len(st1.h), c, Ok(st1, None))

DoTimeShiftInPlace(c, t) ==
  CanStep /\ Call("timeShiftInPlace", c, t, timeShiftInPlace(Store, c, t))

VoiceIds(h) == {i \in 1..Len(h) : h[i].kind = "Voice"}

\* voices, built from lists or from chains, and the operations of the voice
NextVoice ==
  \/ SmallAlloc /\ \E d \in {1, MaxDur}, o \in {None, MaxOffset} : NewNote(d, o)
  \/ SmallAlloc /\ \E S \in SUBSET (1..Len(heap)), o \in {None, MaxOffset} : NewChain(S, o)
  \/ SmallAlloc /\ \E S \in SUBSET (1..Len(heap)) : NewVoice(S)
  \/ SmallAlloc /\ \E c \in ChainIds(heap) : NewVoiceFromChain(c)
  \/ SmallStep /\ \E v \in VoiceIds(heap), e \in EventIds(heap) : DoAppend(v, e)
  \/ SmallStep /\ \E v \in VoiceIds(heap) : DoStack(v)
  \/ SmallStep /\ \E v \in VoiceIds(heap) : DoFillGaps(v)
  \/ SmallStep /\ \E v \in VoiceIds(heap) : DoRemoveRedundantOffsets(v)
  \/ SmallStep /\ \E v \in VoiceIds(heap), t \in Shifts : DoTimeShiftInPlace(v, t)

SpecVoice == Init /\ [][NextVoice]_vars

\* chains with offsets, shifted in place
NextShift ==
  \/ SmallAlloc /\ \E d \in {1, MaxDur}, o \in Offsets : NewNote(d, o)
  \/ SmallAlloc /\ \E S \in SUBSET (1..Len(heap)), o \in Offsets : NewChain(S, o)
  \/ SmallStep /\ \E c \in ChainIds(heap) : ReadDur(c)
  \/ SmallStep /\ \E c \in ChainIds(heap), t \in Shifts : DoTimeShiftInPlace(c, t)

SpecShift == Init /\ [][NextShift]_vars

\* nested chains that are read and then shifted in place
NextShiftRead ==
  \/ SmallAlloc /\ \E d \in {1, MaxDur} : NewNote(d, None)
  \/ SmallAlloc /\ \E S \in SUBSET (1..Len(heap)), o \in {None, MaxOffset} : NewChain(S, o)
  \/ SmallStep /\ \E c \in ChainIds(heap) : ReadEvents(c)
  \/ SmallStep /\ \E c \in ChainIds(heap), t \in 1..MaxOffset : DoTimeShiftInPlace(c, t)

SpecShiftRead == Init /\ [][NextShiftRead]_vars

(***************************************************************************)
(* Stacking over events without a duration                                 *)
(***************************************************************************)
\* an event whose duration was never set (dur is None) is what makes
\* _stackEvents raise
NextNoDur ==
  \/ \E d \in {None, 1}, o \in {None, MaxOffset} : NewNote(d, o)
  \/ \E S \in SUBSET (1..Len(heap)) : NewChain(S, None)
  \/ \E c \in ChainIds(heap), e \in EventIds(heap) : DoAppend(c, e)
  \/ \E c \in ChainIds(heap) : DoStack(c)
  \/ \E c \in ChainIds(heap) : ReadDur(c)
  \/ \E c \in ChainIds(heap) : ReadEvents(c)

SpecNoDur == Init /\ [][NextNoDur]_vars

(***************************************************************************)
(* Read operations                                                         *)
(***************************************************************************)
ReadItems(c) == CanStep /\ Call("itemsWithOffset", c, 0, itemsWithOffset(Store, c))

ReadChildOffset(c, child) ==
  CanStep /\ Call("childOffset", c, child, childOffset(Store, c, child))

NextReads ==
  \/ SmallAlloc /\ \E d \in {1, MaxDur}, o \in {None, MaxOffset} : NewNote(d, o)
  \/ SmallAlloc /\ \E S \in SUBSET (1..Len(heap)) : NewChain(S, None)
  \/ SmallStep /\ \E c \in ChainIds(heap) : ReadDur(c)
  \/ SmallStep /\ \E c \in ChainIds(heap) : ReadEvents(c)
  \/ SmallStep /\ \E c \in ChainIds(heap) : DoStack(c)
  \/ SmallStep /\ \E c \in ChainIds(heap) : ReadItems(c)
  \/ SmallStep /\ \E c \in ChainIds(heap), x \in 1..Len(heap) : ReadChildOffset(c, x)

SpecReads == Init /\ [][NextReads]_vars

(***************************************************************************)
(* Glissandi: notes, chords and rests, with and without a glissando        *)
(***************************************************************************)
\* the pitches of a note or of a chord, in ascending order as Chord.__init__
\* sorts them
GlissPitches(k) ==
  IF k = "Note" THEN {<<60>>, <<62>>} ELSE {<<62>>, <<60, 64>>, <<61, 65, 67>>}

\* Note(p, dur=1, gliss=g) or Chord(p, dur=1, gliss=g)
NewGlissEvent(k, p, g) ==
  /\ CanAlloc
  /\ Call(k, Len(heap) + 1, 0,
          Ok([Store EXCEPT !.h = Append(@, MEvent(k, p, 1, None, FALSE, g, 1, 0, 0))],
             None))

\* Note.makeRest(1)
NewRest ==
  /\ CanAlloc
  /\ Call("Rest", Len(heap) + 1, 0, Ok([Store EXCEPT !.h = Append(@, makeRest(1))], None))

NextGliss ==
  \/ \E k \in {"Note", "Chord"}, g \in BOOLEAN : \E p \in GlissPitches(k) :
       NewGlissEvent(k, p, g)
  \/ NewRest
  \/ \E S \in SUBSET (1..Len(heap)) : NewChain(S, None)
  \/ \E c \in ChainIds(heap), e \in EventIds(heap) : DoAppend(c, e)
  \/ \E c \in ChainIds(heap) : ReadDur(c)

SpecGliss == Init /\ [][NextGliss]_vars

(***************************************************************************)
(* Splitting events at offsets                                             *)
(***************************************************************************)
\* the offsets of a sorted list that fall strictly inside (start, end)
CutsInside(offsets, start, end) ==
  SeqOfSet({offsets[k] : k \in 1..Len(offsets)} \cap ((start + 1)..(end - 1)))

\* MEvent.splitAtOffsets(offsets, tie): [self] when no offset falls strictly
\* inside the span of the event; else one new event per part, with the
\* content of the event, tied together when tie is set.  The first part keeps
\* the offset of the event, the other parts follow it.
splitAtOffsets(st, e, offsets, tie) ==
  LET o == st.h[e]
      start == absOffset(st, e)
      cuts == CutsInside(offsets, start, start + o.dur)
      bounds == <<start>> \o cuts \o <<start + o.dur>>
      n == Len(cuts) + 1
      part(k) == [clone(o) EXCEPT !.dur = bounds[k + 1] - bounds[k],
                                  !.offset = IF k = 1 THEN o.offset ELSE None,
                                  !.tied = IF k < n THEN tie \/ o.tied ELSE o.tied]
  IN IF Len(cuts) = 0 THEN [Ok(st, None) EXCEPT !.retlist = <<e>>]
     ELSE [Ok([st EXCEPT !.h = @ \o [k \in 1..n |-> part(k)]], None)
             EXCEPT !.retlist = [k \in 1..n |-> Len(st.h) + k]]

\* for part in parts: part.parent = self
SetParents(st, parts, c) ==
  [st EXCEPT !.h = [i \in 1..Len(st.h) |->
                      IF InSeq(i, parts) THEN [st.h[i] EXCEPT !.parent = c]
                      ELSE st.h[i]]]

\* Chain.splitEventsAtOffsets(offsets, tie).  The loop runs over the generator
\* itemsWithOffset(): both generators call _update when they start, and the
\* duration of an item is read when the generator resumes after the loop body
\* has handled the item.
RECURSIVE splitEventsAtOffsets(_, _, _, _)
splitEventsAtOffsets(st, c, offsets, tie) ==
  LET RECURSIVE go(_, _, _, _)
      \* the generator resumes: now += item.dur
      resume(d, list, i, items) ==
        IF d.err # NoErr THEN d
        ELSE IF d.ret = None THEN Raise(d.st, "TypeError")
        ELSE go(d.st, list, i + 1, items)
      afterChain(r, list, i, items) ==
        IF r.err # NoErr THEN r
        ELSE resume(itemDur(r.st, list[i]), list, i, Append(items, list[i]))
      afterEvent(p, list, i, items) ==
        resume(itemDur(SetParents(p.st, p.retlist, c), list[i]), list, i,
               items \o p.retlist)
      \* for item, offset in self.itemsWithOffset(); then self.items = items
      go(s, list, i, items) ==
        IF i > Len(list)
        THEN Ok(_changed([s EXCEPT !.l = Append(@, items),
                                   !.h[c].items = Len(s.l) + 1], c), None)
        ELSE IF IsChain(s.h[list[i]])
             THEN afterChain(splitEventsAtOffsets(s, list[i], offsets, tie),
                             list, i, items)
             ELSE afterEvent(splitAtOffsets(s, list[i], offsets, tie), list, i, items)
      inner(u) == IF u.err # NoErr THEN u ELSE go(u.st, ItemsOf(u.st, c), 1, <<>>)
      start(u) == IF u.err # NoErr THEN u ELSE inner(_update(u.st, c))
  IN IF Len(offsets) = 0 THEN Raise(st, "ValueError")
     ELSE start(_update(st, c))

\* the offset lists given to splitEventsAtOffsets
CutLists == {<<>>, <<1>>, <<2>>, <<1, 2>>}

\* c.splitEventsAtOffsets(offsets, tie=tie); arg is the list of offsets.
\* The parts are new objects: the heap stays within MaxObj + 1.
DoSplitEventsAtOffsets(c, offsets, tie) ==
  LET fits(r) == Len(r.st.h) <= MaxObj + 1 /\ Call("splitEventsAtOffsets", c, offsets, r)
  IN CanStep /\ fits(splitEventsAtOffsets(Store, c, offsets, tie))

SplitStep == steps < MaxSteps - 2

NextSplit ==
  \/ SplitStep /\ Len(heap) < MaxObj - 1
       /\ \E d \in {1, MaxDur}, o \in {None, MaxOffset} : NewNote(d, o)
  \/ SplitStep /\ Len(heap) < MaxObj - 1
       /\ \E S \in SUBSET (1..Len(heap)) : NewChain(S, None)
  \/ SplitStep /\ \E c \in ChainIds(heap) : ReadEvents(c)
  \/ SplitStep /\ \E c \in ChainIds(heap), offsets \in CutLists, tie \in BOOLEAN :
       DoSplitEventsAtOffsets(c, offsets, tie)

SpecSplit == Init /\ [][NextSplit]_vars

(***************************************************************************)
(* Copies: clone, timeShift and copy                                       *)
(***************************************************************************)
\* Chain.copy / Chain.__deepcopy__: every item is copied, the copies are
\* put in a new list; ret is the new chain
RECURSIVE copy(_, _)
copy(st, c) ==
  LET RECURSIVE go(_, _, _)
      \* items.append(item.copy()) for a sub-chain
      afterSub(r, i, items) == go(r.st, i + 1, Append(items, r.ret))
      go(s, i, items) ==
        IF i > Len(ItemsOf(st, c))
        THEN LET s1 == [s EXCEPT !.l = Append(@, items)]
                 s2 == ChainInit(s1, Len(s1.l), st.h[c].offset, st.h[c].kind)
             IN Ok(s2, Len(s2.h))
        ELSE IF IsChain(s.h[ItemsOf(st, c)[i]])
             THEN afterSub(copy(s, ItemsOf(st, c)[i]), i, items)
             ELSE go([s EXCEPT !.h = Append(@, clone(s.h[ItemsOf(st, c)[i]]))],
                     i + 1, Append(items, Len(s.h) + 1))
  IN go(st, 1, <<>>)

\* c2 = c.clone(); the new chain is the last object
DoClone(c) ==
  /\ CanAlloc
  /\ Call("clone", Len(heap) + 1, c, Ok(cloneChain(Store, c, heap[c].offset), Len(heap) + 1))

\* c2 = c.timeShift(t), t > 0
DoTimeShift(c, t) ==
  /\ CanAlloc
  /\ Call("timeShift", Len(heap) + 1, c, timeShift(Store, c, t))

\* c2 = c.copy(); the copies of the items are new objects as well
DoCopy(c) ==
  LET fits(r) == Len(r.st.h) <= MaxObj + 1 /\ Call("copy", r.ret, c, r)
  IN CanStep /\ fits(copy(Store, c))

\* one chain built from events; every other chain is returned by clone,
\* timeShift or copy
NextCopy ==
  \/ SmallAlloc /\ \E d \in {1, MaxDur}, o \in {None, MaxOffset} : NewNote(d, o)
  \/ SmallAlloc /\ ChainIds(heap) = {} /\ \E S \in SUBSET (1..Len(heap)) : NewChain(S, None)
  \/ SmallStep /\ \E c \in ChainIds(heap) : DoClone(c)
  \/ SmallStep /\ \E c \in ChainIds(heap) : DoTimeShift(c, 1)
  \/ SmallStep /\ \E c \in ChainIds(heap) : DoCopy(c)
  \/ SmallStep /\ \E c \in ChainIds(heap), e \in EventIds(heap) : DoAppend(c, e)
  \/ SmallStep /\ \E c \in ChainIds(heap) : DoStack(c)

SpecCopy == Init /\ [][NextCopy]_vars

(***************************************************************************)
(* Neighbours of an item                                                   *)
(***************************************************************************)
\* c.nextItem(x) and c.previousItem(x), for any object x
DoNextItem(c, x) == CanStep /\ Call("nextItem", c, x, nextItem(Store, c, x))

DoPreviousItem(c, x) == CanStep /\ Call("previousItem", c, x, previousItem(Store, c, x))

NextItems ==
  \/ \E d \in Durs, o \in {None, MaxOffset} : NewNote(d, o)
  \/ \E S \in SUBSET (1..Len(heap)) : NewChain(S, None)
  \/ \E c \in ChainIds(heap), x \in 1..Len(heap) : DoNextItem(c, x)
  \/ \E c \in ChainIds(heap), x \in 1..Len(heap) : DoPreviousItem(c, x)

SpecItems == Init /\ [][NextItems]_vars

(***************************************************************************)
(* Synthesis lines: groups of synthevents split into lines                 *)
(***************************************************************************)
MaxGroups == 3
MaxGroupLen == 2

\* the fields of a SynthEvent that _splitSynthGroupsIntoLines reads: the
\* pitches of its first and of its last breakpoint, and linkednext
SynthEvent(first, final, linkednext) ==
  [kind |-> "SynthEvent", bps |-> <<first, final>>, linkednext |-> linkednext]

SynthEventSpace ==
  {SynthEvent(p, q, n) : p \in {60, 62}, q \in {60, 62}, n \in BOOLEAN}

\* matchNext: the first available node of the group that starts at the pitch
\* where event ends, in the iteration order of a set of small integers
matchNext(h, event, group, availableNodes) ==
  LET m == {idx \in availableNodes : h[group[idx]].bps[1] = h[event].bps[2]}
  IN IF m = {} THEN None ELSE CHOOSE x \in m : \A y \in m : x <= y

\* makeLine(nodeindex, groupindex, availableNodesPerGroup): the line and the
\* remaining available nodes
RECURSIVE makeLine(_, _, _, _, _)
makeLine(h, groups, nodeindex, groupindex, avail) ==
  LET event == groups[groupindex][nodeindex]
      stop == [line |-> <<event>>, avail |-> avail]
      continue(c) == [line |-> <<event>> \o c.line, avail |-> c.avail]
      follow(nextEventIndex) ==
        IF nextEventIndex = None THEN stop
        ELSE continue(makeLine(h, groups, nextEventIndex, groupindex + 1,
                               [avail EXCEPT ![groupindex + 1] = @ \ {nextEventIndex}]))
  IN IF ~h[event].linkednext \/ groupindex = Len(groups) THEN stop
     ELSE IF avail[groupindex + 1] = {} THEN stop
     ELSE follow(matchNext(h, event, groups[groupindex + 1], avail[groupindex + 1]))

\* _splitSynthGroupsIntoLines(groups): the output as a sequence of lines, a
\* bare element being a line of one event; the last event of every line gets
\* linkednext = False
_splitSynthGroupsIntoLines(st, groups) ==
  LET RECURSIVE nodes(_, _, _, _, _)
      RECURSIVE loop(_, _, _)
      \* m is the line made for the node
      emit(m, h, groupindex, todo, out) ==
        nodes([h EXCEPT ![m.line[Len(m.line)]].linkednext = FALSE],
              groupindex, todo, m.avail, Append(out, m.line))
      \* for nodeindex in availableNodesPerGroup[groupindex]
      nodes(h, groupindex, todo, avail, out) ==
        IF Len(todo) = 0 THEN loop(h, groupindex + 1, [avail |-> avail, out |-> out])
        ELSE emit(makeLine(h, groups, todo[1], groupindex, avail),
                  h, groupindex, Tail(todo), out)
      \* for groupindex in range(len(groups)), then the last group
      loop(h, groupindex, acc) ==
        IF groupindex > Len(groups)
        THEN [Ok([st EXCEPT !.h = h], None) EXCEPT !.retlist =
                acc.out \o
                (IF Len(groups) > 1 /\ acc.avail[Len(groups)] # {}
                 THEN [k \in 1..Cardinality(acc.avail[Len(groups)]) |->
                         <<groups[Len(groups)][SeqOfSet(acc.avail[Len(groups)])[k]]>>]
                 ELSE <<>>)]
        ELSE nodes(h, groupindex, SeqOfSet(acc.avail[groupindex]), acc.avail, acc.out)
  IN loop(st.h, 1, [avail |-> [g \in 1..Len(groups) |-> 1..Len(groups[g])],
                    out |-> <<>>])

\* the groups are lists of consecutive synthevents
GroupsOfSizes(sizes) ==
  [g \in 1..Len(sizes) |->
     [k \in 1..sizes[g] |-> SeqSum(SubSeq(sizes, 1, g - 1)) + k]]

InitLines ==
  /\ \E n \in 0..MaxGroups : \E sizes \in [1..n -> 0..MaxGroupLen] :
       /\ heap \in [1..SeqSum(sizes) -> SynthEventSpace]
       /\ lists = GroupsOfSizes(sizes)
  /\ last = [op |-> "init", target |-> 0, arg |-> 0, ret |-> None,
             retlist |-> <<>>, err |-> NoErr, pre |-> [h |-> <<>>, l |-> <<>>]]
  /\ steps = 0

DoSplitSynthGroupsIntoLines ==
  /\ steps = 0
  /\ Call("_splitSynthGroupsIntoLines", 0, 0, _splitSynthGroupsIntoLines(Store, lists))

NextLines == DoSplitSynthGroupsIntoLines

SpecLines == InitLines /\ [][NextLines]_vars

(***************************************************************************)
(* Stacking of notations (scoring)                                         *)
(***************************************************************************)
MaxNotations == 3

\* a Notation: offset and duration may be unset; a grace note has duration 0
Notation(offset, duration) == [kind |-> "Notation", offset |-> offset, duration |-> duration]

NotationOffsets == {None} \cup (0..(MaxOffset + 1))
NotationDurs == {None} \cup (0..MaxDur)
NotationSpace == {Notation(o, d) : o \in NotationOffsets, d \in NotationDurs}

\* all(ev.offset is not None and ev.duration is not None for ev in events)
AllSet(h, events) ==
  \A i \in 1..Len(events) : h[events[i]].offset # None /\ h[events[i]].duration # None

\* for ev1, ev2 in pairwise(events): assert ev1.offset <= ev2.offset
SortedByOffset(h, events) ==
  \A i \in 1..(Len(events) - 1) : h[events[i]].offset <= h[events[i + 1]].offset

\* fixOverlap(notations), times in whole units: a gap below mingap is no gap.
\* n0.end is n0.offset + n0.duration.
fixOverlap(st, notations) ==
  LET RECURSIVE go(_, _)
      cut(s, i, n0, n1) ==
        IF n0.offset + n0.duration >= n1.offset
        THEN go([s EXCEPT !.h[notations[i]].duration = n1.offset - n0.offset], i + 1)
        ELSE go(s, i + 1)
      check(s, i, n0, n1) ==
        IF n0.duration = None \/ n0.offset = None \/ n1.offset = None
        THEN Raise(s, "AssertionError")
        ELSE IF ~(n0.offset <= n1.offset) THEN Raise(s, "AssertionError")
        ELSE cut(s, i, n0, n1)
      go(s, i) ==
        IF i >= Len(notations) THEN Ok(s, None)
        ELSE check(s, i, s.h[notations[i]], s.h[notations[i + 1]])
  IN IF Len(notations) < 2 THEN Ok(st, None) ELSE go(st, 1)

\* stackNotationsInPlace(events, start, overrideOffset)
stackNotationsInPlace(st, events, start, overrideOffset) ==
  LET RECURSIVE go(_, _, _)
      finish(s) ==
        IF ~SortedByOffset(s.h, events) THEN Raise(s, "AssertionError")
        ELSE fixOverlap(s, events)
      \* now += ev.duration
      advance(s, i, now) == go(s, i + 1, now + s.h[events[i]].duration)
      go(s, i, now) ==
        IF i > Len(events) THEN finish(s)
        ELSE IF s.h[events[i]].offset = None \/ overrideOffset
        THEN IF s.h[events[i]].duration = None THEN Raise(s, "AssertionError")
             ELSE advance([s EXCEPT !.h[events[i]].offset = now], i, now)
        ELSE IF s.h[events[i]].duration = None
        THEN IF i = Len(events) THEN Raise(s, "ValueError")
             ELSE IF s.h[events[i + 1]].offset = None THEN Raise(s, "TypeError")
             ELSE advance([s EXCEPT !.h[events[i]].duration =
                                      s.h[events[i + 1]].offset - s.h[events[i]].offset],
                          i, now)
        ELSE advance(s, i, now)
  IN IF AllSet(st.h, events) THEN Ok(st, None)
     ELSE go(st, 1, IF st.h[events[1]].offset # None THEN st.h[events[1]].offset
                    ELSE start)

\* stackNotations(events, start, overrideOffset): the stacked notations are
\* clones, the list returned is new
stackNotations(st, events, start, overrideOffset) ==
  LET RECURSIVE go(_, _, _, _)
      finish(s, out) ==
        IF ~SortedByOffset(s.h, out) THEN Raise(s, "AssertionError")
        ELSE [fixOverlap(s, out) EXCEPT !.retlist = out]
      \* ev = ev.clone(...); now += ev.duration; out.append(ev)
      cloned(s, ev, i, now, out) ==
        go([s EXCEPT !.h = Append(@, ev)], i + 1, now + ev.duration,
           Append(out, Len(s.h) + 1))
      go(s, i, now, out) ==
        IF i > Len(events) THEN finish(s, out)
        ELSE IF s.h[events[i]].offset = None \/ overrideOffset
        THEN IF s.h[events[i]].duration = None THEN Raise(s, "AssertionError")
             ELSE cloned(s, Notation(now, s.h[events[i]].duration), i, now, out)
        ELSE IF s.h[events[i]].duration = None
        THEN IF i = Len(events) THEN Raise(s, "ValueError")
             ELSE IF s.h[events[i + 1]].offset = None THEN Raise(s, "TypeError")
             ELSE cloned(s, Notation(s.h[events[i]].offset,
                                     s.h[events[i + 1]].offset - s.h[events[i]].offset),
                         i, now, out)
        ELSE go(s, i + 1, now + s.h[events[i]].duration, Append(out, events[i]))
  IN IF AllSet(st.h, events) THEN [Ok(st, None) EXCEPT !.retlist = events]
     ELSE IF \E i \in 1..Len(events) :
               st.h[events[i]].offset = None /\ st.h[events[i]].duration = None
     THEN Raise(st, "AssertionError")
     ELSE go(st, 1, IF st.h[events[1]].offset # None THEN st.h[events[1]].offset
                    ELSE start, <<>>)

\* a list of up to MaxNotations notations, given to one of the two functions
InitNotations ==
  /\ \E n \in 0..MaxNotations : heap \in [1..n -> NotationSpace]
  /\ lists = <<[i \in 1..Len(heap) |-> i]>>
  /\ last = [op |-> "init", target |-> 0, arg |-> 0, ret |-> None,
             retlist |-> <<>>, err |-> NoErr, pre |-> [h |-> <<>>, l |-> <<>>]]
  /\ steps = 0

\* target is the list, arg is <<start, overrideOffset>>
DoStackNotationsInPlace(start, overrideOffset) ==
  /\ steps = 0
  /\ Call("stackNotationsInPlace", 1, <<start, overrideOffset>>,
          stackNotationsInPlace(Store, lists[1], start, overrideOffset))

DoStackNotations(start, overrideOffset) ==
  /\ steps = 0
  /\ Call("stackNotations", 1, <<start, overrideOffset>>,
          stackNotations(Store, lists[1], start, overrideOffset))

NextNotations ==
  \/ \E start \in 0..MaxOffset, overrideOffset \in BOOLEAN :
       DoStackNotationsInPlace(start, overrideOffset)
  \/ \E start \in 0..MaxOffset, overrideOffset \in BOOLEAN :
       DoStackNotations(start, overrideOffset)

SpecNotations == InitNotations /\ [][NextNotations]_vars

(***************************************************************************)
(* Reference definitions used by the properties                            *)
(***************************************************************************)
\* the chains and events reachable from c through items lists (c excluded)
RECURSIVE Descendants(_, _)
Descendants(st, c) ==
  LET items == ItemsOf(st, c)
  IN UNION {{items[i]} \cup (IF IsChain(st.h[items[i]])
                              THEN Descendants(st, items[i]) ELSE {})
            : i \in 1..Len(items)}

SubChains(st, c) == {c} \cup {d \in Descendants(st, c) : IsChain(st.h[d])}

\* the containers above c, following parent references
RECURSIVE Ancestors(_, _)
Ancestors(st, c) ==
  IF st.h[c].parent = NoParent THEN {}
  ELSE {st.h[c].parent} \cup Ancestors(st, st.h[c].parent)

NoExplicitOffsets(st, c) == \A d \in Descendants(st, c) : st.h[d].offset = None

\* sum of the durations of the leaf events of an item
RECURSIVE LeafDurSum(_, _)
LeafDurSum(st, id) ==
  IF IsEvent(st.h[id]) THEN st.h[id].dur
  ELSE LET items == ItemsOf(st, id)
       IN SeqSum([i \in 1..Len(items) |-> LeafDurSum(st, items[i])])

\* sum of the durations of the siblings that precede position i
PrefixDur(st, items, i) == SeqSum([k \in 1..(i - 1) |-> LeafDurSum(st, items[k])])

\* where a stacking pass puts item i of a list, and where that item ends
RECURSIVE StackedStart(_, _, _)
RECURSIVE StackedDur(_, _)
StackedStart(st, items, i) ==
  IF st.h[items[i]].offset # None THEN st.h[items[i]].offset
  ELSE IF i = 1 THEN 0
  ELSE StackedStart(st, items, i - 1) + StackedDur(st, items[i - 1])
StackedDur(st, id) ==
  IF IsEvent(st.h[id]) THEN st.h[id].dur
  ELSE LET items == ItemsOf(st, id)
       IN IF Len(items) = 0 THEN 0
          ELSE StackedStart(st, items, Len(items)) + StackedDur(st, items[Len(items)])

\* the running cursor when a stacking pass reaches item i
Cursor(st, items, i) ==
  IF i = 1 THEN 0 ELSE StackedStart(st, items, i - 1) + StackedDur(st, items[i - 1])

\* some item, at any depth, has an explicit offset before the cursor
HasOverlap(st, c) ==
  \E d \in SubChains(st, c) :
    \E i \in 1..Len(ItemsOf(st, d)) :
      /\ st.h[ItemsOf(st, d)[i]].offset # None
      /\ st.h[ItemsOf(st, d)[i]].offset < Cursor(st, ItemsOf(st, d), i)

\* the store with every cache dropped and every container marked dirty
Invalidated(st) ==
  [st EXCEPT !.h = [i \in 1..Len(st.h) |->
     IF IsChain(st.h[i])
     THEN [st.h[i] EXCEPT !.modified = TRUE, !.cached = FALSE, !.cache = <<>>]
     ELSE st.h[i]]]

MutatingOps == {"append", "stack"}
ReadOps == {"dur", "eventsWithOffset"}

\* the call ran a stacking pass over the target
RanStackingPass ==
  \/ last.op = "stack"
  \/ /\ last.op \in ReadOps
     /\ last.pre.h[last.target].modified
     /\ Len(ItemsOf(last.pre, last.target)) > 0

(***************************************************************************)
(* Properties                                                              *)
(***************************************************************************)
\* C1: stack() on a chain without explicit offsets gives every item,
\* recursively, the sum of the durations of its preceding siblings as offset,
\* and returns and stores the sum of all durations.
C1_StackCumulative ==
  (last.op = "stack" /\ NoExplicitOffsets(last.pre, last.target)) =>
    /\ last.err = NoErr
    /\ last.ret = LeafDurSum(last.pre, last.target)
    /\ dur(Store, last.target).ret = LeafDurSum(last.pre, last.target)
    /\ \A d \in SubChains(last.pre, last.target) :
         \A i \in 1..Len(ItemsOf(last.pre, d)) :
           heap[ItemsOf(last.pre, d)[i]].offset = PrefixDur(last.pre, ItemsOf(last.pre, d), i)

\* C2: a stacking pass over a container with an item whose explicit offset
\* is earlier than the running cursor raises a ValueError.
C2_OverlapRaises ==
  (RanStackingPass /\ HasOverlap(last.pre, last.target)) => last.err = "ValueError"

\* C3: consecutive events returned by eventsWithOffset() never overlap.
C3_NoOverlap ==
  (last.op = "eventsWithOffset" /\ last.err = NoErr) =>
    \A i \in 1..(Len(last.retlist) - 1) :
      last.retlist[i][2] + heap[last.retlist[i][1]].dur <= last.retlist[i + 1][2]

\* C4: a read returns what flattening the current tree from scratch gives;
\* a cached value that no longer matches the tree is never returned.
FreshEvents(st, c) == eventsWithOffset(Invalidated(st), c)
FreshDurs(st, c) == {dur(Invalidated(st), c).ret, FreshEvents(st, c).st.h[c].dur}
C4_NoStaleRead ==
  (last.op \in ReadOps /\ last.err = NoErr /\ heap[last.target].parent = NoParent) =>
    /\ last.op = "eventsWithOffset" =>
         last.retlist = FreshEvents(last.pre, last.target).retlist
    /\ last.op = "dur" => last.ret \in FreshDurs(last.pre, last.target)

\* C5: a mutating call leaves its container and every ancestor container
\* dirty, with the cached flat list cleared.
C5_MutationDirtiesAncestors ==
  (last.op \in MutatingOps /\ last.err = NoErr) =>
    \A a \in {last.target} \cup Ancestors(Store, last.target) :
      heap[a].modified /\ ~heap[a].cached

\* C6: every item of a container has that container as parent, and no item
\* is in the items of two different containers.
C6_ParentBackReference ==
  /\ \A c \in ChainIds(heap) :
       \A i \in 1..Len(ItemsOf(Store, c)) : heap[ItemsOf(Store, c)[i]].parent = c
  /\ \A c1, c2 \in ChainIds(heap) :
       c1 # c2 => \A i \in 1..Len(ItemsOf(Store, c1)) :
                    ~InSeq(ItemsOf(Store, c1)[i], ItemsOf(Store, c2))

\* what the claim expects of mergeTiedEvents: two adjacent events are merged
\* when they have the same type, pitch, amplitude and dynamic and the first is
\* tied; a maximal run becomes one event with the summed duration
Compatible(o1, o2) ==
  /\ IsEvent(o1) /\ IsEvent(o2)
  /\ o1.kind = o2.kind
  /\ o1.tied
  /\ o1.pitches = o2.pitches
  /\ o1.amp = o2.amp
  /\ o1.dynamic = o2.dynamic

Descr(o) == IF IsChain(o) THEN <<"Chain", <<>>, 0>> ELSE <<o.kind, o.pitches, o.dur>>

\* the expected items of a chain after merging, as (type, pitches, dur)
ExpectedMerge(st, items) ==
  LET RECURSIVE go(_, _)
      go(i, out) ==
        IF i > Len(items) THEN out
        ELSE LET o == st.h[items[i]]
             IN IF i > 1 /\ Compatible(st.h[items[i - 1]], o)
                THEN go(i + 1, [out EXCEPT ![Len(out)][3] = @ + o.dur])
                ELSE go(i + 1, Append(out, Descr(o)))
  IN go(1, <<>>)

ActualItems(st, c) == [i \in 1..Len(ItemsOf(st, c)) |-> Descr(st.h[ItemsOf(st, c)[i]])]

\* C7: mergeTiedEvents keeps the sum of the durations of the leaf events
\* reachable from the chain.
C7_MergeKeepsTotalDuration ==
  last.op = "mergeTiedEvents" =>
    LeafDurSum(Store, last.target) = LeafDurSum(last.pre, last.target)

\* C8: every run of mergeable events becomes exactly one event with the sum
\* of the durations, wherever it sits; sub-chains stay in place, are merged
\* inside, and are never merged with their siblings.
C8_MergeCollapsesRuns ==
  last.op = "mergeTiedEvents" =>
    \A d \in SubChains(last.pre, last.target) :
      ActualItems(Store, d) = ExpectedMerge(last.pre, ItemsOf(last.pre, d))

\* C9: a merged event has the summed duration and the tie flag of the second
\* event, for notes and for chords.
C9_MergedDurAndTie ==
  (last.op = "mergeWith" /\ last.ret # None
     /\ heap[last.target].tied
     /\ heap[last.target].pitches = heap[last.arg].pitches
     /\ heap[last.target].amp = heap[last.arg].amp) =>
    /\ heap[last.ret].dur = heap[last.target].dur + heap[last.arg].dur
    /\ heap[last.ret].tied = heap[last.arg].tied

\* C10: mergeWith returns an event only for two events with the same pitches,
\* amplitude and dynamic, the first tied, the second no rest unless both are,
\* neither with a glissando or a label.
C10_MergeOnlyIfCompatible ==
  (last.op = "mergeWith" /\ last.ret # None) =>
    LET e1 == heap[last.target]
        e2 == heap[last.arg]
    IN /\ e1.pitches = e2.pitches
       /\ e1.amp = e2.amp
       /\ e1.dynamic = e2.dynamic
       /\ e1.tied
       /\ isRest(e2) => isRest(e1)
       /\ ~e1.gliss /\ ~e2.gliss
       /\ e1.label = 0 /\ e2.label = 0

\* the items of a list that existed before the call
OldItems(items) == SelectSeq(items, LAMBDA x : x <= Len(last.pre.h))

\* item i of the list is preceded by a rest of duration d made by the call
RestBefore(st, items, i, d) ==
  /\ i > 1
  /\ items[i - 1] > Len(last.pre.h)
  /\ isRest(st.h[items[i - 1]])
  /\ st.h[items[i - 1]].dur = d
  /\ st.h[items[i - 1]].offset = None

\* no item of the chain, at any depth, starts after the end of its predecessor
NoGaps(st, c) ==
  \A d \in SubChains(st, c) :
    \A i \in 1..Len(ItemsOf(st, d)) :
      st.h[ItemsOf(st, d)[i]].offset # None =>
        st.h[ItemsOf(st, d)[i]].offset <= Cursor(st, ItemsOf(st, d), i)

\* C11: fillGaps puts a rest of exactly the gap duration right before every
\* item whose explicit offset exceeds the running cursor, keeps all other
\* items and their offsets, and leaves no gap at any depth.
C11_FillGapsClosesGaps ==
  (last.op = "fillGaps" /\ last.err = NoErr) =>
    /\ \A d \in SubChains(last.pre, last.target) :
         LET before == ItemsOf(last.pre, d)
             after == ItemsOf(Store, d)
         IN /\ OldItems(after) = before
            /\ \A i \in 1..Len(before) : heap[before[i]].offset = last.pre.h[before[i]].offset
            /\ \A i \in 1..Len(before) :
                 (/\ last.pre.h[before[i]].offset # None
                  /\ last.pre.h[before[i]].offset > Cursor(last.pre, before, i))
                 => \E k \in 1..Len(after) :
                      /\ after[k] = before[i]
                      /\ RestBefore(Store, after, k,
                                    last.pre.h[before[i]].offset - Cursor(last.pre, before, i))
    /\ NoGaps(Store, last.target)

\* the explicit offsets of all objects
OffsetsOf(h) == [i \in 1..Len(h) |-> h[i].offset]

\* C12: after removeRedundantOffsets() has returned, a second call changes no
\* explicit offset, neither of an item at any depth nor of the chain itself.
C12_RemoveRedundantIdempotent ==
  (last.op = "removeRedundantOffsets" /\ last.err = NoErr) =>
    OffsetsOf(removeRedundantOffsets(Store, last.target).st.h) = OffsetsOf(heap)

\* the first call cleared the offset of an item that is not the first of its
\* list, and a later item kept its offset
C12_Witness ==
  /\ last.op = "removeRedundantOffsets" /\ last.err = NoErr
  /\ \E i \in 1..Len(heap) :
       i <= Len(last.pre.h) /\ last.pre.h[i].offset # None /\ heap[i].offset = None
         /\ IsEvent(heap[i])
  /\ \E i \in 1..Len(heap) : IsEvent(heap[i]) /\ heap[i].offset # None
                              /\ heap[i].parent = last.target

\* where the leaf events of a chain lie when its offsets are read as the spec
\* defines them: an explicit offset counts from the start of the container,
\* an unset one is the end of the preceding item
RECURSIVE Positions(_, _, _)
Positions(st, c, frame) ==
  LET items == ItemsOf(st, c)
      RECURSIVE go(_)
      go(i) ==
        IF i > Len(items) THEN <<>>
        ELSE (IF IsEvent(st.h[items[i]])
              THEN <<<<items[i], frame + StackedStart(st, items, i)>>>>
              ELSE Positions(st, items[i], frame + StackedStart(st, items, i)))
             \o go(i + 1)
  IN go(1)

\* C13: on a chain whose items all had offset None, stack() followed by
\* removeRedundantOffsets() leaves every item's offset, at every depth, None
\* again, and every event where stack() had put it.
C13_StackThenRemoveRoundTrip ==
  (last.op = "stack" /\ last.err = NoErr
     /\ NoExplicitOffsets(last.pre, last.target)) =>
    LET r == removeRedundantOffsets(Store, last.target)
    IN /\ r.err = NoErr
       /\ \A d \in Descendants(last.pre, last.target) : r.st.h[d].offset = None
       /\ Positions(r.st, last.target, 0) = Positions(Store, last.target, 0)

\* C14: the offset of every Voice is 0, whatever was called on it.
C14_VoiceOffsetZero ==
  \A v \in 1..Len(heap) : heap[v].kind = "Voice" => heap[v].offset = 0

\* C15: a Voice built from a Chain with offset d > 0 has offset 0 and holds
\* every event where the chain, taken as a root, had it.
C15_VoiceBakesChainOffset ==
  (last.op = "VoiceFromChain" /\ last.pre.h[last.arg].offset # None
     /\ last.pre.h[last.arg].offset > 0) =>
    /\ heap[last.target].offset = 0
    /\ Positions(Store, last.target, 0)
         = Positions(last.pre, last.arg, last.pre.h[last.arg].offset)

\* the first event of the chain lies at the start of the chain
FirstItemAtZero(st, c) ==
  /\ Len(Positions(st, c, 0)) > 0
  /\ Positions(st, c, 0)[1][2] = 0

\* the start of the item before c in its parent's list, or 0
RoomBefore(st, c) ==
  LET items == ItemsOf(st, st.h[c].parent)
      i == CHOOSE k \in 1..Len(items) : items[k] = c
  IN Cursor(st, items, i)

\* C16: a negative shift that the container cannot absorb raises for a
\* container that is not the root and has no room before it in its parent,
\* and succeeds with the offsets clamped to 0 for a root.
C16_NegativeShift ==
  (last.op = "timeShiftInPlace" /\ last.arg < 0
     /\ FirstItemAtZero(last.pre, last.target)
     /\ relOffset(last.pre, last.target) + last.arg < 0) =>
    IF last.pre.h[last.target].parent = NoParent
    THEN /\ last.err = NoErr
         /\ relOffset(Store, last.target) = 0
         /\ FirstItemAtZero(Store, last.target)
    ELSE (/\ InSeq(last.target, ItemsOf(last.pre, last.pre.h[last.target].parent))
          /\ relOffset(last.pre, last.target) + last.arg
               < RoomBefore(last.pre, last.target))
         => last.err = "ValueError"

\* the cached durations and flat lists of all containers
CachesOf(h) == [i \in 1..Len(h) |-> IF IsChain(h[i]) THEN <<h[i].dur, h[i].cached, h[i].cache>>
                                    ELSE <<>>]

\* C17: a stacking pass that raises leaves the container dirty and has
\* changed no cached duration, no cached flat list and no explicit offset.
C17_NoPartialStacking ==
  (last.op \in {"stack"} \cup ReadOps /\ last.err # NoErr) =>
    /\ heap[last.target].modified
    /\ CachesOf(heap) = CachesOf(last.pre.h)
    /\ OffsetsOf(heap) = OffsetsOf(last.pre.h)

AllReadOps == ReadOps \cup {"itemsWithOffset", "childOffset"}

\* C18: dur, eventsWithOffset(), itemsWithOffset() and childOffset() leave
\* the explicit offset of every object as it was, whether they return or
\* raise; an offset that was None becomes explicit only in a call of stack().
C18_ReadsKeepOffsets ==
  /\ last.op \in AllReadOps => OffsetsOf(heap) = OffsetsOf(last.pre.h)
  /\ (\E i \in 1..Len(last.pre.h) :
        last.pre.h[i].offset = None /\ heap[i].offset # None)
       => last.op = "stack"

\* a read ran the lazy stacking pass: an item without explicit offset got its
\* resolved offset from it, after an item with a duration
C18_Witness ==
  /\ last.op \in AllReadOps /\ last.err = NoErr
  /\ \E i \in 1..Len(last.pre.h) :
       /\ heap[i].offset = None
       /\ last.pre.h[i].resolved = None
       /\ heap[i].resolved > 0

\* eventsWithOffset() returned on a chain without parent
IsFlattenOfRoot ==
  /\ last.op = "eventsWithOffset" /\ last.err = NoErr
  /\ last.pre.h[last.target].parent = NoParent

\* C19: eventsWithOffset() on a root chain returns every leaf event once, in
\* depth-first order, at its absolute offset (explicit offsets relative to the
\* container start, unset ones at the end of the preceding item); dur is the
\* end of the last item and a repeated call returns the same list.
C19_Flattening ==
  IsFlattenOfRoot =>
    /\ last.retlist = Positions(last.pre, last.target,
                                relOffset(last.pre, last.target))
    /\ \A e \in Descendants(last.pre, last.target) :
         IsEvent(heap[e]) =>
           Cardinality({k \in 1..Len(last.retlist) : last.retlist[k][1] = e}) = 1
    /\ dur(Store, last.target).ret = StackedDur(last.pre, last.target)
    /\ eventsWithOffset(Store, last.target).retlist = last.retlist

\* the target the rules give event a when it is followed by b; for a chord
\* followed by a smaller chord only the number of pitches is fixed
IsTargetOf(t, a, b) ==
  /\ (a.kind = "Note" /\ b.kind = "Note") => t = <<b.pitches[1]>>
  /\ (a.kind = "Note" /\ b.kind = "Chord") => t = <<SeqMax(b.pitches)>>
  /\ (a.kind = "Chord" /\ b.kind = "Chord" /\ Len(b.pitches) >= Len(a.pitches))
       => t = LastN(b.pitches, Len(a.pitches))
  /\ (a.kind = "Chord" /\ b.kind = "Note")
       => t = [k \in 1..Len(a.pitches) |-> b.pitches[1]]
  /\ a.kind = "Chord" => Len(t) = Len(a.pitches)

\* C20: after the lazy pass of dur over a chain, every event of the flattened
\* sequence that is marked for glissando, had no target and is followed by an
\* event, neither being a rest, has the target the rules give: the next
\* pitch, the highest pitch of the next chord, the next chord's highest
\* pitches, or the next pitch repeated; a chord's target has as many pitches
\* as the chord.
C20_GlissTargets ==
  (last.op = "dur" /\ last.err = NoErr /\ RanStackingPass) =>
    LET flat == recurse(last.pre, last.target)
    IN \A i \in 1..(Len(flat) - 1) :
         LET a == last.pre.h[flat[i]]
             b == last.pre.h[flat[i + 1]]
         IN (a.gliss /\ a.glissTarget = <<>> /\ ~isRest(a) /\ ~isRest(b))
              => IsTargetOf(heap[flat[i]].glissTarget, a, b)

\* C21: after the lazy pass of dur over a chain with at least one event, the
\* last event of the flattened sequence, when it is marked for glissando and
\* is no rest, has its own pitches as glissando target; this includes the
\* only event of a one-event sequence.
C21_LastGlissOwnPitch ==
  (last.op = "dur" /\ last.err = NoErr /\ RanStackingPass) =>
    LET flat == recurse(last.pre, last.target)
    IN Len(flat) >= 1 =>
         LET e == flat[Len(flat)]
         IN (last.pre.h[e].gliss /\ ~isRest(last.pre.h[e]))
              => heap[e].glissTarget = heap[e].pitches

\* the number of times event e occurs in the lines of the output
Occurrences(out, e) ==
  SeqSum([k \in 1..Len(out) |->
            Cardinality({j \in 1..Len(out[k]) : out[k][j] = e})])

\* C22: every sub-event of every group occurs exactly once in the output of
\* _splitSynthGroupsIntoLines, as a bare element or inside one line; none is
\* emitted twice or lost, the sub-events of the last group included.
C22_EachNodeOnce ==
  last.op = "_splitSynthGroupsIntoLines" =>
    \A e \in 1..Len(heap) : Occurrences(last.retlist, e) = 1

\* what splitEventsAtOffsets puts in place of the items of a list: a
\* sub-chain stays, an event gives one entry per part with its duration
RECURSIVE SplitShape(_, _, _, _)
SplitShape(u, items, i, offsets) ==
  IF i > Len(items) THEN <<>>
  ELSE LET x == items[i]
           p == splitAtOffsets(u, x, offsets, TRUE)
       IN (IF IsChain(u.h[x]) THEN <<[src |-> x, dur |-> None, n |-> 1]>>
           ELSE [k \in 1..Len(p.retlist) |->
                   [src |-> x, dur |-> p.st.h[p.retlist[k]].dur, n |-> Len(p.retlist)]])
          \o SplitShape(u, items, i + 1, offsets)

\* the items of container d after the call are the parts of its items before
SplitInto(pre, u, post, d, offsets) ==
  LET shape == SplitShape(u, ItemsOf(pre, d), 1, offsets)
      new == ItemsOf(post, d)
  IN /\ Len(new) = Len(shape)
     /\ \A j \in 1..Len(new) :
          LET s == shape[j]
              o == post.h[new[j]]
          IN IF IsChain(pre.h[s.src]) THEN new[j] = s.src
             ELSE /\ IsEvent(o)
                  /\ o.pitches = pre.h[s.src].pitches
                  /\ o.kind = pre.h[s.src].kind
                  /\ o.dur = s.dur
                  /\ o.parent = d
                  /\ IF s.n = 1 THEN new[j] = s.src ELSE new[j] > Len(pre.h)
     /\ \A j, k \in 1..Len(new) : new[j] = new[k] => j = k

\* C23: splitEventsAtOffsets with a non-empty offset list replaces each
\* top-level event by its parts, in order, keeps every sub-chain in place and
\* splits inside it, makes the container the parent of every part and leaves
\* the container dirty with its cached flat list cleared; with an empty list
\* it raises ValueError and changes nothing.
C23_SplitEventsAtOffsets ==
  last.op = "splitEventsAtOffsets" =>
    IF last.arg = <<>>
    THEN last.err = "ValueError" /\ Store = last.pre
    ELSE /\ last.err = NoErr
         /\ \A d \in SubChains(last.pre, last.target) :
              SplitInto(last.pre, _update(last.pre, last.target).st, Store, d,
                        last.arg)
         /\ heap[last.target].modified
         /\ ~heap[last.target].cached
         /\ heap[last.target].cache = <<>>


\* the offsets of the items of c
ItemOffsets(st, c) == [i \in 1..Len(ItemsOf(st, c)) |-> st.h[ItemsOf(st, c)[i]].offset]

\* C24: a chain returned by clone, timeShift or copy is independent of the
\* chain it was made from: an in-place mutation (append, stack) of one of the
\* two leaves the items of the other, the offsets of its events and the
\* values read from it (dur, eventsWithOffset) unchanged.
C24_CopiesIndependent ==
  (last.op \in MutatingOps /\ last.err = NoErr) =>
    \A c \in ChainIds(last.pre.h) \ {last.target} :
      /\ ItemsOf(Store, c) = ItemsOf(last.pre, c)
      /\ ItemOffsets(Store, c) = ItemOffsets(last.pre, c)
      /\ dur(Store, c).ret = dur(last.pre, c).ret
      /\ eventsWithOffset(Store, c).retlist = eventsWithOffset(last.pre, c).retlist


\* the places of x in a list
PlacesOf(items, x) == {i \in 1..Len(items) : items[i] = x}

\* C25: nextItem(x) returns the item that follows x for every x that is not
\* the last item, and None when x is the last item or is not in the
\* container; previousItem(nextItem(x)) is x for every x that is not last.
C25_NextItem ==
  last.op = "nextItem" =>
    LET items == ItemsOf(last.pre, last.target)
        at == PlacesOf(items, last.arg)
    IN /\ last.err = NoErr
       /\ IF at # {} /\ at # {Len(items)}
          THEN /\ \E i \in at : i < Len(items) /\ last.ret = items[i + 1]
               /\ previousItem(Store, last.target, last.ret).ret = last.arg
          ELSE last.ret = 0


\* C26: removeRedundantOffsets clears the explicit offset of exactly the
\* items whose offset is the place where stacking would put them, keeps every
\* offset that lies after the cursor, raises ValueError when an offset lies
\* before the cursor, and moves no event of any chain.
C26_RemoveRedundantOffsets ==
  last.op = "removeRedundantOffsets" =>
    IF HasOverlap(last.pre, last.target) THEN last.err = "ValueError"
    ELSE /\ last.err = NoErr
         /\ \A d \in SubChains(last.pre, last.target) :
              \A i \in 1..Len(ItemsOf(last.pre, d)) :
                LET x == ItemsOf(last.pre, d)[i]
                    o == last.pre.h[x].offset
                IN heap[x].offset =
                     IF o # None /\ o > Cursor(last.pre, ItemsOf(last.pre, d), i)
                     THEN o ELSE None
         /\ \A r \in ChainIds(last.pre.h) :
              Positions(Store, r, 0) = Positions(last.pre, r, 0)


\* each notation has an offset or a duration, and the explicit offsets are
\* non-decreasing
StackableInput(h, events) ==
  /\ \A i \in 1..Len(events) : h[events[i]].offset # None \/ h[events[i]].duration # None
  /\ \A i, j \in 1..Len(events) :
       (i < j /\ h[events[i]].offset # None /\ h[events[j]].offset # None)
         => h[events[i]].offset <= h[events[j]].offset

\* the stacked list: the list given, or the list returned by stackNotations
StackedList == IF last.op = "stackNotations" THEN last.retlist ELSE lists[1]

\* C27: for a list in which each notation has an offset or a duration and the
\* explicit offsets are non-decreasing, stacking puts every notation without
\* offset at the end of the notation before it, no assertion fails, the
\* result is sorted by offset and no notation ends after the next one starts.
C27_StackNotations ==
  (/\ last.op \in {"stackNotationsInPlace", "stackNotations"}
   /\ last.arg = <<0, FALSE>>
   /\ StackableInput(last.pre.h, last.pre.l[1])) =>
    LET in == last.pre.l[1]
        out == StackedList
    IN /\ last.err # "AssertionError"
       /\ last.err # NoErr =>
            (last.err = "ValueError" /\ last.pre.h[in[Len(in)]].duration = None)
       /\ last.err = NoErr =>
            /\ Len(out) = Len(in)
            /\ \A i \in 2..Len(in) :
                 (last.pre.h[in[i]].offset = None /\ last.pre.h[in[i - 1]].duration # None)
                   => heap[out[i]].offset
                        = heap[out[i - 1]].offset + last.pre.h[in[i - 1]].duration
            /\ SortedByOffset(heap, out)
            /\ \A i \in 1..(Len(out) - 1) :
                 heap[out[i]].offset + heap[out[i]].duration <= heap[out[i + 1]].offset


\* C28: for every top-level event of a chain the offset resolved by the
\* stacking pass (childOffset), the offset yielded by itemsWithRelativeOffset
\* and itemsWithOffset and the offset paired with the event by
\* eventsWithOffset are equal, an explicit offset 0 included, and reading
\* eventsWithOffset does not change the value of dur.
C28_OffsetRoutinesAgree ==
  (last.op = "eventsWithOffset" /\ last.err = NoErr) =>
    LET c == last.target
        items == ItemsOf(Store, c)
        frame == absOffset(Store, c)
        rel == itemsWithRelativeOffset(Store, c).retlist
        abs == itemsWithOffset(Store, c).retlist
    IN /\ \A i \in 1..Len(items) :
            IsEvent(heap[items[i]]) =>
              /\ rel[i][2] = childOffset(Store, c, items[i]).ret
              /\ abs[i][2] = childOffset(Store, c, items[i]).ret + frame
              /\ InSeq(<<items[i], abs[i][2]>>, last.retlist)
       /\ dur(Store, c).ret = dur(last.pre, c).ret


\* the pairs of a flat list, each offset moved by d
ShiftedPairs(pairs, d) == [k \in 1..Len(pairs) |-> <<pairs[k][1], pairs[k][2] + d>>]

\* C29: after a sub-chain C of P was read with eventsWithOffset() and P was
\* shifted with timeShiftInPlace(d), d > 0, the next C.eventsWithOffset()
\* returns every event of C with its absolute offset increased by d.
C29_CachedOffsetsFollowAncestors ==
  (last.op = "timeShiftInPlace" /\ last.arg > 0 /\ last.err = NoErr) =>
    \A c \in Descendants(last.pre, last.target) :
      (IsChain(last.pre.h[c]) /\ last.pre.h[c].cached /\ ~last.pre.h[c].modified) =>
        eventsWithOffset(Store, c).retlist = ShiftedPairs(last.pre.h[c].cache, last.arg)


\* C30: after appends and reads, every event of the flattened sequence that
\* is marked for glissando and is followed by an event, neither being a rest,
\* has the target the rules give for the event that follows it now; an event
\* that was last when it was first resolved gets the pitch of the event
\* appended after it.
C30_GlissTargetsTrackSuccessor ==
  (last.op = "dur" /\ last.err = NoErr /\ RanStackingPass) =>
    LET flat == recurse(Store, last.target)
    IN \A i \in 1..(Len(flat) - 1) :
         LET a == heap[flat[i]]
             b == heap[flat[i + 1]]
         IN (a.gliss /\ ~isRest(a) /\ ~isRest(b))
              => IsTargetOf(a.glissTarget, a, b)

====
